---- MODULE Spec2Model ----
(***************************************************************************)
(* The attendance service of src/main.py: one table of AttendanceRecord    *)
(* rows (src/models.py) and the request handlers that create and update    *)
(* them.  Time is counted in whole seconds; the handlers read the Toronto  *)
(* wall clock with its zone stripped.                                      *)
(***************************************************************************)
EXTENDS Integers, Sequences, FiniteSets, TLC

VARIABLES
    records,    \* the attendance table: a sequence of rows, in insertion order
    utc,        \* the real (monotonic) time, seconds since 00:00 EDT of day 0
    resp,       \* the last request handled and the response it returned
    sessions,   \* the database sessions of the requests in flight
    base        \* the table as it stood before the requests in flight began

vars == <<records, utc, resp, sessions, base>>

--------------------------------------------------------------------------
(* Bounds of the model *)

MaxRecords == 2
MaxApprovals == 1
MaxElapsed == 4000

(* Numbers of the program *)

SecondsPerHour == 3600
SecondsPerMinute == 60
PresentMinutes == 45
SecondsPerDay == 86400
FallBackAt == 7200
DstShift == 3600

--------------------------------------------------------------------------
(* Python values *)

\* An optional value (a nullable column, a key a request body may lack):
\* <<>> is None, <<v>> is v.
None == <<>>

Some(v) == <<v>>

\* dict.get(key, default)
GetOr(opt, default) == IF opt = None THEN default ELSE opt[1]

\* One decimal digit as text.
Digit(d) ==
    CASE d = 0 -> "0" [] d = 1 -> "1" [] d = 2 -> "2" [] d = 3 -> "3"
      [] d = 4 -> "4" [] d = 5 -> "5" [] d = 6 -> "6" [] d = 7 -> "7"
      [] d = 8 -> "8" [] d = 9 -> "9"

RECURSIVE NatStr(_)
NatStr(n) == IF n < 10 THEN Digit(n) ELSE NatStr(n \div 10) \o Digit(n % 10)

\* An int inside an f-string.
IntStr(n) == IF n < 0 THEN "-" \o NatStr(-n) ELSE NatStr(n)

\* An optional text inside an f-string: None renders as the text None.
PyStr(opt) == IF opt = None THEN "None" ELSE opt[1]

\* divmod with the quotient rounded to the nearest integer.
DivmodRounded(a, b) == <<(2 * a + b) \div (2 * b), a % b>>

\* divmod(a, b) for b > 0: floor division and a remainder in 0..b-1.
Divmod(a, b) == <<a \div b, a % b>>

--------------------------------------------------------------------------
(* The clock *)

\* datetime.now(CANADA_TZ).replace(tzinfo=None): the Toronto wall clock
\* without its offset.  Day 0 is a day the clocks are set back: at 02:00 EDT
\* the wall clock returns to 01:00 EST.
get_canada_time_naive(u) == IF u < FallBackAt THEN u ELSE u - DstShift

\* strftime("%Y-%m-%d"): the calendar day of a wall clock time.
DateKey(t) == t \div SecondsPerDay

\* The instants at which the requests of the service arrive.
Instants == {5400, 9900, 93600}

--------------------------------------------------------------------------
(* The table *)

\* The row of a new AttendanceRecord: the id is the next of the table,
\* the columns not given are NULL.
NewRow(id, name, t, status, notes, reg) ==
    [id |-> id, student_name |-> name, sign_in |-> Some(t), sign_out |-> None,
     total_hours |-> None, status |-> status, notes |-> notes,
     is_regularized |-> reg]

\* The query without its filter: the first row of the table.
LookupNoFilter(rows, record_id) == IF rows = <<>> THEN 0 ELSE 1

\* db.query(AttendanceRecord).filter(AttendanceRecord.id == record_id).first():
\* the position of the row, 0 when there is none.
Lookup(rows, record_id) ==
    IF \E i \in DOMAIN rows : rows[i].id = record_id
    THEN CHOOSE i \in DOMAIN rows : rows[i].id = record_id
    ELSE 0

\* The fields a request body may carry: absent, or a value.
NameInputs == {None, Some("Alice")}
DateInputs == {None}
ReasonInputs == {Some("sick")}
Decisions == {None, Some("Approved"), Some("Rejected")}
RecordIds == 1 .. (MaxRecords + 1)

\* The requests served in parallel, each with a database session of its own.
Sessions == {1, 2}

Idle == [pc |-> "idle"]

--------------------------------------------------------------------------
(* The handlers, each a whole request *)

Init ==
    /\ records = <<>>
    /\ utc = 5400
    /\ resp = [op |-> "none", id |-> 0, code |-> 0, body |-> None]
    /\ sessions = [s \in Sessions |-> Idle]
    /\ base = <<>>

Tick ==
    /\ \E t \in Instants : t > utc /\ utc' = t
    /\ UNCHANGED <<records, resp, sessions, base>>

\* POST /attendance/signin
sign_in(name) ==
    /\ Len(records) < MaxRecords
    /\ LET id == Len(records) + 1
           new_record == NewRow(id, GetOr(name, "Unknown Student"),
                                get_canada_time_naive(utc), "In-Progress",
                                None, FALSE)
       IN /\ records' = Append(records, new_record)
          /\ resp' = [op |-> "sign_in", id |-> id, code |-> 200,
                      body |-> Some(id)]
    /\ UNCHANGED <<utc, sessions, base>>

\* The duration between sign-in and sign-out, in whole seconds.
Seconds(record, so) == so - record.sign_in[1]

\* f"{hours}h {minutes}m"
FormatDuration(hours, minutes) == IntStr(hours) \o "h " \o IntStr(minutes) \o "m"

\* The rule with a strict comparison of the minutes.
StatusOfStrict(hours, minutes) ==
    IF hours > 0 \/ minutes > PresentMinutes THEN "Present" ELSE "Shortage"

\* "Present" if (hours > 0 or minutes >= 45) else "Shortage"
StatusOf(hours, minutes) ==
    IF hours > 0 \/ minutes >= PresentMinutes THEN "Present" ELSE "Shortage"

\* The assignments of sign_out to the row it found, the clock reading so.
SignOutRow(record, so) ==
    LET seconds == Seconds(record, so)
        hr == Divmod(seconds, SecondsPerHour)
        hours == hr[1]
        remainder == hr[2]
        minutes == Divmod(remainder, SecondsPerMinute)[1]
    IN [record EXCEPT !.sign_out = Some(so),
                      !.total_hours = Some(FormatDuration(hours, minutes)),
                      !.status = StatusOf(hours, minutes)]

\* update_status taking any decision given for an approval.
UpdateRowAnyDecision(record, decision) ==
    IF decision # None
    THEN [record EXCEPT !.status = "Present",
                        !.notes = Some("Approved: " \o PyStr(record.notes))]
    ELSE [record EXCEPT !.status = "Rejected"]

\* The assignments of update_status to the row it found.
UpdateRow(record, decision) ==
    IF decision = Some("Approved")
    THEN [record EXCEPT !.status = "Present",
                        !.notes = Some("Approved: " \o PyStr(record.notes))]
    ELSE [record EXCEPT !.status = "Rejected"]

\* f"Date: {data.get('date')} | Reason: {data.get('reason')}"
RegularizationNotes(date, reason) ==
    Some("Date: " \o PyStr(date) \o " | Reason: " \o PyStr(reason))

\* The notes a row can hold after at most n approvals.
RECURSIVE NotesUpTo(_)
NotesUpTo(n) ==
    IF n = 0
    THEN {None} \cup {RegularizationNotes(date, reason) :
                          date \in DateInputs, reason \in ReasonInputs}
    ELSE NotesUpTo(n - 1) \cup
         {Some("Approved: " \o PyStr(notes)) : notes \in NotesUpTo(n - 1)}

\* db.commit() of a session that loaded row i as `loaded` and left it as
\* `record`: an UPDATE of the columns whose value the handler changed.
Commit(rows, i, loaded, record) ==
    [rows EXCEPT ![i] = [c \in DOMAIN rows[i] |->
        IF record[c] # loaded[c] THEN record[c] ELSE rows[i][c]]]

\* POST /attendance/signout/{record_id}
sign_out(record_id) ==
    /\ LET i == Lookup(records, record_id)
       IN IF i = 0
          THEN /\ records' = records
               /\ resp' = [op |-> "sign_out", id |-> record_id, code |-> 404,
                           body |-> Some("Session ID not found")]
          ELSE LET record == SignOutRow(records[i], get_canada_time_naive(utc))
                   rows == Commit(records, i, records[i], record)
               IN /\ records' = rows
                  /\ resp' = [op |-> "sign_out", id |-> record_id, code |-> 200,
                              body |-> <<rows[i].status, PyStr(rows[i].total_hours)>>]
    /\ UNCHANGED <<utc, sessions, base>>

\* POST /attendance/regularize
request_regularization(name, date, reason) ==
    /\ Len(records) < MaxRecords
    /\ LET id == Len(records) + 1
           new_reg == NewRow(id, GetOr(name, "Unknown Student"),
                             get_canada_time_naive(utc), "Pending Approval",
                             RegularizationNotes(date, reason),
                             TRUE)
       IN /\ records' = Append(records, new_reg)
          /\ resp' = [op |-> "regularize", id |-> 0, code |-> 200,
                      body |-> Some("Submitted to Professor")]
    /\ UNCHANGED <<utc, sessions, base>>

\* dict.setdefault(key, value): the first value of a key stays.
PutIfAbsent(summary, key, value) ==
    [k \in DOMAIN summary \cup {key} |->
        IF k \in DOMAIN summary THEN summary[k] ELSE value]

\* dict[key] = value
Put(summary, key, value) ==
    [k \in DOMAIN summary \cup {key} |-> IF k = key THEN value ELSE summary[k]]

\* The loop of get_month_summary over the rows from position k on.
RECURSIVE SummaryLoop(_, _, _)
SummaryLoop(rows, k, summary) ==
    IF k > Len(rows) THEN summary
    ELSE LET r == rows[k]
         IN IF r.sign_in # None
            THEN SummaryLoop(rows, k + 1,
                             Put(summary, DateKey(r.sign_in[1]), r.status))
            ELSE SummaryLoop(rows, k + 1, summary)

\* The orders in which a query with no ORDER BY may return n rows.
Orders(n) == {f \in [1 .. n -> 1 .. n] : \A a, b \in 1 .. n : f[a] = f[b] => a = b}

\* GET /attendance/month-summary; `order` is the order .all() returned the rows in.
get_month_summary(order) ==
    /\ LET rows == [k \in 1 .. Len(records) |-> records[order[k]]]
       IN resp' = [op |-> "month_summary", id |-> 0, code |-> 200,
                   body |-> [order |-> order,
                             summary |-> SummaryLoop(rows, 1, <<>>)]]
    /\ UNCHANGED <<records, utc, sessions, base>>

\* The count of the rows that are not a Shortage.
CountNotShortage(rows) == Len(SelectSeq(rows, LAMBDA r : r.status # "Shortage"))

\* filter(AttendanceRecord.status == "Present").count()
CountPresent(rows) == Len(SelectSeq(rows, LAMBDA r : r.status = "Present"))

\* GET /attendance
get_attendance_count ==
    /\ resp' = [op |-> "count", id |-> 0, code |-> 200,
                body |-> Some(CountPresent(records))]
    /\ UNCHANGED <<records, utc, sessions, base>>

\* PUT /professor/action/{record_id}
update_status(record_id, decision) ==
    /\ LET i == Lookup(records, record_id)
       IN IF i = 0
          THEN /\ records' = records
               /\ resp' = [op |-> "update_status", id |-> record_id, code |-> 404,
                           body |-> Some("Request not found")]
          ELSE /\ UpdateRow(records[i], decision).notes \in NotesUpTo(MaxApprovals)
               /\ records' = Commit(records, i, records[i],
                                    UpdateRow(records[i], decision))
               /\ resp' = [op |-> "update_status", id |-> record_id, code |-> 200,
                           body |-> Some("Request " \o PyStr(decision))]
    /\ UNCHANGED <<utc, sessions, base>>

Next ==
    \/ Tick
    \/ \E name \in NameInputs : sign_in(name)
    \/ \E record_id \in RecordIds : sign_out(record_id)
    \/ \E name \in NameInputs, date \in DateInputs, reason \in ReasonInputs :
          request_regularization(name, date, reason)
    \/ \E order \in Orders(Len(records)) : get_month_summary(order)
    \/ get_attendance_count
    \/ \E record_id \in RecordIds, decision \in Decisions :
          update_status(record_id, decision)

Spec == Init /\ [][Next]_vars

--------------------------------------------------------------------------
(* The sign-out of one session, for every elapsed time *)

\* The instants of the sign-in: before and after the clocks are set back.
SignInInstants == {5400, 7200}

InitDur ==
    /\ \E u \in SignInInstants, e \in 0 .. MaxElapsed :
          /\ records = <<NewRow(1, "Alice", get_canada_time_naive(u),
                                "In-Progress", None, FALSE)>>
          /\ utc = u + e
    /\ resp = [op |-> "sign_in", id |-> 1, code |-> 200, body |-> Some(1)]
    /\ sessions = [s \in Sessions |-> Idle]
    /\ base = <<>>

NextDur ==
    \/ \E record_id \in RecordIds : sign_out(record_id)
    \/ get_attendance_count

SpecDur == InitDur /\ [][NextDur]_vars

--------------------------------------------------------------------------
(* Two requests in parallel: each reads its row, then commits *)

\* Whether the store accepts the commit of session s: it takes no lock and
\* checks no version, whatever was committed since the session read its row.
StoreAccepts(s) == TRUE

\* sign_out up to its commit: the query, the clock reading, the assignments.
begin_sign_out(s, record_id) ==
    /\ sessions[s].pc = "idle"
    /\ LET i == Lookup(records, record_id)
           so == get_canada_time_naive(utc)
       IN sessions' = [sessions EXCEPT ![s] =
            IF i = 0
            THEN [pc |-> "done", op |-> "sign_out", id |-> record_id,
                  decision |-> None, so |-> so]
            ELSE [pc |-> "loaded", op |-> "sign_out", id |-> record_id,
                  decision |-> None, so |-> so, i |-> i, loaded |-> records[i],
                  record |-> SignOutRow(records[i], so)]]
    /\ UNCHANGED <<records, utc, resp, base>>

\* update_status up to its commit: the query and the assignments.
begin_update_status(s, record_id, decision) ==
    /\ sessions[s].pc = "idle"
    /\ LET i == Lookup(records, record_id)
           so == get_canada_time_naive(utc)
       IN /\ i # 0 => UpdateRow(records[i], decision).notes \in NotesUpTo(MaxApprovals)
          /\ sessions' = [sessions EXCEPT ![s] =
               IF i = 0
               THEN [pc |-> "done", op |-> "update_status", id |-> record_id,
                     decision |-> decision, so |-> so]
               ELSE [pc |-> "loaded", op |-> "update_status", id |-> record_id,
                     decision |-> decision, so |-> so, i |-> i,
                     loaded |-> records[i],
                     record |-> UpdateRow(records[i], decision)]]
    /\ UNCHANGED <<records, utc, resp, base>>

\* db.commit() of the session.
commit(s) ==
    /\ sessions[s].pc = "loaded"
    /\ StoreAccepts(s)
    /\ LET q == sessions[s]
       IN /\ records' = Commit(records, q.i, q.loaded, q.record)
          /\ sessions' = [sessions EXCEPT ![s] =
               [pc |-> "done", op |-> q.op, id |-> q.id, decision |-> q.decision,
                so |-> q.so]]
    /\ UNCHANGED <<utc, resp, base>>

\* The tables the parallel requests start from: one open session, or one
\* regularization request awaiting approval.
StartTables ==
    {<<NewRow(1, "Alice", get_canada_time_naive(5400), "In-Progress", None, FALSE)>>}
    \cup {<<NewRow(1, "Alice", get_canada_time_naive(5400), "Pending Approval",
                   RegularizationNotes(date, reason), TRUE)>> :
             date \in DateInputs, reason \in ReasonInputs}

InitConc ==
    /\ records \in StartTables
    /\ utc = 5400
    /\ resp = [op |-> "none", id |-> 0, code |-> 0, body |-> None]
    /\ sessions = [s \in Sessions |-> Idle]
    /\ base = records

NextConc ==
    \/ Tick
    \/ \E s \in Sessions, record_id \in RecordIds : begin_sign_out(s, record_id)
    \/ \E s \in Sessions, record_id \in RecordIds, decision \in Decisions :
          begin_update_status(s, record_id, decision)
    \/ \E s \in Sessions : commit(s)

SpecConc == InitConc /\ [][NextConc]_vars

--------------------------------------------------------------------------
(* The claims *)

Terminal == {"Present", "Shortage", "Rejected"}

\* The whole seconds between the sign_in and the sign_out of a signed-out row.
Elapsed(r) == r.sign_out[1] - r.sign_in[1]

HoursOf(s) == s \div 3600

MinutesOf(s) == (s % 3600) \div 60

\* Whether some row has the id.
Known(rows, id) == \E i \in DOMAIN rows : rows[i].id = id

\* C1, as stated: a signed-out record is Present exactly when hours > 0 or
\* minutes >= 10, and Shortage otherwise.
C1_PresentFrom10Minutes ==
    \A i \in DOMAIN records : records[i].sign_out # None =>
        LET s == Elapsed(records[i])
        IN /\ records[i].status = "Present" <=>
                  (HoursOf(s) > 0 \/ MinutesOf(s) >= 10)
           /\ records[i].status # "Present" => records[i].status = "Shortage"

\* C1, amended: after a sign-out, with s the whole seconds between sign_in and
\* sign_out, the status is Present exactly when s // 3600 > 0 or
\* (s % 3600) // 60 >= 45 (for s >= 0: when s >= 2700) and Shortage otherwise;
\* a sign-out 12 minutes after the sign-in returns Shortage with the duration
\* "0h 12m", and attendance-count does not count the record.
C1_PresentFrom45Minutes ==
    \A i \in DOMAIN records : records[i].sign_out # None =>
        LET s == Elapsed(records[i])
            r == records[i]
        IN /\ r.status = "Present" <=> (HoursOf(s) > 0 \/ MinutesOf(s) >= 45)
           /\ r.status # "Present" => r.status = "Shortage"
           /\ s >= 0 => (r.status = "Present" <=> s >= 2700)
           /\ s = 720 =>
                 /\ r.status = "Shortage"
                 /\ r.total_hours = Some("0h 12m")
                 /\ (resp.op = "sign_out" /\ resp.code = 200) =>
                        resp.body = <<"Shortage", "0h 12m">>
                 /\ resp.op = "count" => resp.body = Some(0)

\* A sign-out 12 minutes after the sign-in, then attendance-count.
C1_Witness ==
    /\ resp.op = "count"
    /\ \E i \in DOMAIN records :
          records[i].sign_out # None /\ Elapsed(records[i]) = 720

\* C2: a sign-out or a resolve whose record_id matches no stored record
\* answers 404 and leaves the table as it was.
C2_NotFoundLeavesStore ==
    [][(resp'.op \in {"sign_out", "update_status"} /\ ~Known(records, resp'.id))
          => (resp'.code = 404 /\ records' = records)]_vars

\* A resolve of an unknown id, the table holding records.
C2_Witness ==
    /\ resp.op = "update_status"
    /\ resp.code = 404
    /\ Len(records) > 0
    /\ ~Known(records, resp.id)

\* C3, as stated: once the status of a record is Present, Shortage or
\* Rejected, no request changes its status, sign_out, total_hours or notes.
C3_TerminalIsFinal ==
    [][\A i \in DOMAIN records : records[i].status \in Terminal =>
          /\ records'[i].status = records[i].status
          /\ records'[i].sign_out = records[i].sign_out
          /\ records'[i].total_hours = records[i].total_hours
          /\ records'[i].notes = records[i].notes]_vars

\* C4, as stated: a regularization record has no sign_out and no total_hours
\* and a status among Pending Approval, Present, Rejected; a normal session
\* has a status among In-Progress, Present, Shortage.
C4_RegularizedNeverSignsOut ==
    \A i \in DOMAIN records :
        IF records[i].is_regularized
        THEN /\ records[i].sign_out = None
             /\ records[i].total_hours = None
             /\ records[i].status \in {"Pending Approval", "Present", "Rejected"}
        ELSE records[i].status \in {"In-Progress", "Present", "Shortage"}

\* C5, as stated: total_hours is set exactly when sign_out is, a record with
\* total_hours has the status Present or Shortage, and a total_hours once set
\* is never overwritten.
C5_TotalHoursSetOnce ==
    [][\A i \in DOMAIN records :
          /\ (records[i].total_hours # None) <=> (records[i].sign_out # None)
          /\ records[i].total_hours # None =>
                /\ records[i].status \in {"Present", "Shortage"}
                /\ records'[i].total_hours = records[i].total_hours]_vars

\* C6: a resolve of a record whose status is Pending Approval makes it
\* Present with the notes prefixed by "Approved: " when the decision is
\* "Approved", and Rejected with the notes untouched for any other decision;
\* the other fields of the record and the other records stay as they were.
C6_ResolvePending ==
    [][\A i \in DOMAIN records, d \in Decisions :
          (/\ records[i].status = "Pending Approval"
           /\ resp' = [op |-> "update_status", id |-> records[i].id,
                       code |-> 200, body |-> Some("Request " \o PyStr(d))])
          => /\ IF d = Some("Approved")
                THEN /\ records'[i].status = "Present"
                     /\ records[i].notes # None
                     /\ records'[i].notes =
                            Some("Approved: " \o records[i].notes[1])
                ELSE /\ records'[i].status = "Rejected"
                     /\ records'[i].notes = records[i].notes
             /\ \A c \in {"id", "student_name", "sign_in", "sign_out",
                          "total_hours", "is_regularized"} :
                   records'[i][c] = records[i][c]
             /\ Len(records') = Len(records)
             /\ \A j \in DOMAIN records : j # i => records'[j] = records[j]]_vars

\* An approved regularization request.
C6_Witness ==
    /\ resp.op = "update_status"
    /\ resp.body = Some("Request Approved")
    /\ \E i \in DOMAIN records :
          /\ records[i].id = resp.id
          /\ records[i].is_regularized
          /\ records[i].status = "Present"
          /\ records[i].sign_out = None
          /\ records[i].notes = Some("Approved: Date: None | Reason: sick")

\* C7: after a sign-out with s whole seconds between sign_in and sign_out,
\* total_hours is the text "{H}h {M}m" with H = s // 3600 and
\* M = (s % 3600) // 60, and the duration returned is the stored total_hours.
C7_TotalHoursFloor ==
    \A i \in DOMAIN records : records[i].sign_out # None =>
        LET s == Elapsed(records[i])
            H == s \div 3600
            M == (s - 3600 * H) \div 60
        IN /\ records[i].total_hours = Some(IntStr(H) \o "h " \o IntStr(M) \o "m")
           /\ 60 * M <= s - 3600 * H
           /\ s = 3723 => records[i].total_hours = Some("1h 2m")
           /\ s = 3599 => records[i].total_hours = Some("0h 59m")
           /\ (resp.op = "sign_out" /\ resp.code = 200 /\ resp.id = records[i].id)
                 => resp.body[2] = records[i].total_hours[1]

\* A sign-out 3723 seconds after the sign-in.
C7_Witness ==
    /\ resp.op = "sign_out"
    /\ resp.code = 200
    /\ resp.body[2] = "1h 2m"
    /\ \E i \in DOMAIN records :
          records[i].sign_out # None /\ Elapsed(records[i]) = 3723

\* C8: attendance-count returns the number of records whose status is
\* Present, and changes no record.
C8_CountIsPresent ==
    [][resp'.op = "count" =>
          /\ records' = records
          /\ resp'.body = Some(Cardinality(
                 {i \in DOMAIN records' : records'[i].status = "Present"}))]_vars

\* A count over a record Present by sign-out and one Present by approval.
C8_Witness ==
    /\ resp.op = "count"
    /\ resp.body = Some(2)
    /\ \E i, j \in DOMAIN records :
          /\ records[i].status = "Present" /\ ~records[i].is_regularized
          /\ records[i].sign_out # None /\ records[i].notes = None
          /\ records[j].status = "Present" /\ records[j].is_regularized

\* The last position, in the order the rows were returned in, of a row of
\* the date.
LastOf(order, date) ==
    CHOOSE k \in DOMAIN order :
        /\ DateKey(records[order[k]].sign_in[1]) = date
        /\ \A m \in DOMAIN order :
              DateKey(records[order[m]].sign_in[1]) = date => m <= k

\* C9: month-summary has one key per date on which a record has a sign_in,
\* and the value of a date is the status of the last record of that date in
\* the order the store returned the records in.
C9_SummaryLastPerDate ==
    resp.op = "month_summary" =>
        LET summary == resp.body.summary
            order == resp.body.order
        IN /\ DOMAIN summary =
                  {DateKey(records[i].sign_in[1]) : i \in DOMAIN records}
           /\ \A date \in DOMAIN summary :
                  summary[date] = records[order[LastOf(order, date)]].status

\* Two records of one date with different statuses, returned in the order
\* opposite to their insertion.
C9_Witness ==
    /\ resp.op = "month_summary"
    /\ Len(records) = 2
    /\ resp.body.order = <<2, 1>>
    /\ DateKey(records[1].sign_in[1]) = DateKey(records[2].sign_in[1])
    /\ records[1].status # records[2].status
    /\ resp.body.summary[DateKey(records[1].sign_in[1])] = records[1].status

\* A whole request on the table: what a request served alone does.
ApplyRequest(rows, q) ==
    LET i == Lookup(rows, q.id)
    IN IF i = 0 THEN rows
       ELSE Commit(rows, i, rows[i],
                   IF q.op = "sign_out" THEN SignOutRow(rows[i], q.so)
                   ELSE UpdateRow(rows[i], q.decision))

\* C10, as stated: when two requests in parallel are done, the table is the
\* one that serving them one after the other, in some order, produces.
C10_Serializable ==
    (\A s \in Sessions : sessions[s].pc = "done") =>
        records \in {ApplyRequest(ApplyRequest(base, sessions[1]), sessions[2]),
                     ApplyRequest(ApplyRequest(base, sessions[2]), sessions[1])}

====
